---- MODULE Spec2Model ----
(***************************************************************************)
(* SpaceSecurityMiddleware: the in-memory access index (allowedSpaces,     *)
(* privateSpaces, publicSpaces), its maintenance from Space transactions,  *)
(* write authorization in tx and query rewriting in findAll.               *)
(***************************************************************************)
EXTENDS Integers, Sequences, FiniteSets, TLC

\* allowedSpaces, privateSpaces, publicSpaces: the fields of the middleware.
\* storage: the Space documents held by the storage behind the pipeline.
\* phase: how far create has come.
\* calls: the calls of tx that are suspended at an await, one per slot.
\* serial: the index that handling the transactions one after another, in the
\* order the next stage received them, gives.
VARIABLES allowedSpaces, privateSpaces, publicSpaces, storage, phase, calls, serial

vars == <<allowedSpaces, privateSpaces, publicSpaces, storage, phase, calls, serial>>

(* ------------------------------ bounds -------------------------------- *)

\* Longest array (allowedSpaces[a], publicSpaces, members) a step may build.
MaxLen == 2

\* Longest array of accounts a request carries (members of a created space,
\* a full replacement of members, an $each or $in batch) and longest members
\* array of a space found in storage at start-up.
MaxBatch == 2

\* Number of calls of tx that may be suspended at the same time.
MaxCalls == 2

(* ------------------------------ values -------------------------------- *)

Accounts == {"a1", "a2"}

System == "core:account:System"

\* A request context whose account cannot be resolved.
Unresolved == "unresolved"

Contexts == Accounts \cup {System, Unresolved}

Spaces == {"s1"}

systemSpaces ==
  <<"core:space:Configuration", "core:space:DerivedTx", "core:space:Model",
    "core:space:Space", "core:space:Tx">>

(* --------------------------- array helpers ---------------------------- *)

Range(s) == {s[i] : i \in 1..Len(s)}

includes(arr, x) == \E i \in 1..Len(arr) : arr[i] = x

\* Array.findIndex((p) => p === x): the first index holding x, 0 for -1.
findIndex(arr, x) ==
  IF includes(arr, x)
    THEN CHOOSE i \in 1..Len(arr) : arr[i] = x /\ \A j \in 1..(i - 1) : arr[j] # x
    ELSE 0

\* arr.splice(index, 1)
splice(arr, index) == [i \in 1..(Len(arr) - 1) |-> IF i < index THEN arr[i] ELSE arr[i + 1]]

\* arr.filter((p) => keep.includes(p))
RECURSIVE filter(_, _)
filter(arr, keep) ==
  IF arr = <<>> THEN <<>>
  ELSE (IF includes(keep, Head(arr)) THEN <<Head(arr)>> ELSE <<>>) \o filter(Tail(arr), keep)

\* arr.filter((p) => !drop.includes(p))
RECURSIVE without(_, _)
without(arr, drop) ==
  IF arr = <<>> THEN <<>>
  ELSE (IF includes(drop, Head(arr)) THEN <<>> ELSE <<Head(arr)>>) \o without(Tail(arr), drop)

\* All arrays over S of length at most n.
SeqsUpTo(S, n) == UNION {[1..k -> S] : k \in 0..n}

\* Arrays over S without a repeated element, of length at most n.
DistinctSeqs(S, n) == {s \in SeqsUpTo(S, n) : Cardinality(Range(s)) = Len(s)}

(* ------------------------------ the index ----------------------------- *)
\* The index is handled as a record idx = [allowedSpaces, privateSpaces,
\* publicSpaces].  allowedSpaces maps every account to its array, an account
\* without an entry to the empty array: every read of the Record takes a missing
\* entry for an empty one (`?? []`, `=== undefined ||`, `?.includes`).
\* privateSpaces is a function whose domain is the set of live keys, the keys
\* whose value is not undefined.

Index(a, p, q) == [allowedSpaces |-> a, privateSpaces |-> p, publicSpaces |-> q]

EmptyMap == [x \in {} |-> <<>>]

AccountIds == Accounts \cup {System}

EmptyIndex == Index([a \in AccountIds |-> <<>>], EmptyMap, <<>>)

Put(f, k, v) == [x \in (DOMAIN f) \cup {k} |-> IF x = k THEN v ELSE f[x]]

Drop(f, k) == [x \in (DOMAIN f) \ {k} |-> f[x]]

\* A Space document.
SpaceDoc(id, priv, members) == [_id |-> id, private |-> priv, members |-> members]

\* arr = allowedSpaces[member] ?? []; arr.push(space); allowedSpaces[member] = arr
addMemberSpace(idx, member, space) ==
  [idx EXCEPT !.allowedSpaces[member] = Append(@, space)]

\* for (const member of members) addMemberSpace(member, space)
RECURSIVE addMembers(_, _, _)
addMembers(idx, members, space) ==
  IF members = <<>> THEN idx
  ELSE addMembers(addMemberSpace(idx, Head(members), space), Tail(members), space)

addSpace(idx, space) ==
  addMembers([idx EXCEPT !.privateSpaces = Put(idx.privateSpaces, space._id, space)],
             space.members, space._id)

removeMemberSpace(idx, member, space) ==
  LET arr   == idx.allowedSpaces[member]
      index == findIndex(arr, space)
  IN  IF index # 0
        THEN [idx EXCEPT !.allowedSpaces[member] = splice(arr, index)]
        ELSE idx

\* for (const member of members) removeMemberSpace(member, space)
RECURSIVE removeMembers(_, _, _)
removeMembers(idx, members, space) ==
  IF members = <<>> THEN idx
  ELSE removeMembers(removeMemberSpace(idx, Head(members), space), Tail(members), space)

removeSpace(idx, id) ==
  IF id \in DOMAIN idx.privateSpaces
    THEN [removeMembers(idx, idx.privateSpaces[id].members, idx.privateSpaces[id]._id)
            EXCEPT !.privateSpaces = Drop(@, id)]
    ELSE idx

removePublicSpace(idx, id) ==
  LET publicIndex == findIndex(idx.publicSpaces, id)
  IN  IF publicIndex # 0
        THEN [idx EXCEPT !.publicSpaces = splice(idx.publicSpaces, publicIndex)]
        ELSE idx

(* ---------------------------- collaborators --------------------------- *)

ClassSpace == "core:class:Space"

ClassDoc == "core:class:Doc"

TxCreateDoc == "core:class:TxCreateDoc"

TxUpdateDoc == "core:class:TxUpdateDoc"

TxRemoveDoc == "core:class:TxRemoveDoc"

TxCUD == "core:class:TxCUD"

\* A transaction class that is not a document change.
TxBulkWrite == "core:class:TxBulkWrite"

\* hierarchy.isDerived(_class, from): the class-derivation oracle of the storage.
isDerived(class, from) ==
  \/ class = from
  \/ from = TxCUD /\ class \in {TxCreateDoc, TxUpdateDoc, TxRemoveDoc}
  \/ from = ClassDoc /\ class = ClassSpace

\* An optional value is an array of length 0 (undefined) or 1.
None == <<>>

Some(x) == <<x>>

\* getUser(storage, ctx): the account of the request context, or a failure.
getUser(ctx) ==
  IF ctx = Unresolved THEN [ok |-> FALSE, account |-> Unresolved]
  ELSE [ok |-> TRUE, account |-> ctx]

\* The operations of an update: private?, members?, $push.members?, $pull.members?.
\* $push.members is a single account or {$each: [...]}; $pull.members is a single
\* account or {$in: [...]}.
Operations(priv, members, push, pull) ==
  [private |-> priv, members |-> members, push |-> push, pull |-> pull]

NoOperations == Operations(None, None, None, None)

PushOne(a) == [each |-> FALSE, vals |-> <<a>>]

PushEach(as) == [each |-> TRUE, vals |-> as]

PullOne(a) == [in |-> FALSE, vals |-> <<a>>]

PullIn(as) == [in |-> TRUE, vals |-> as]

NoAttributes == [private |-> FALSE, members |-> <<>>]

Tx(class, objectClass, objectId, objectSpace, attributes, operations) ==
  [_class |-> class, objectClass |-> objectClass, objectId |-> objectId,
   objectSpace |-> objectSpace, attributes |-> attributes, operations |-> operations]

\* TxProcessor.buildDoc2Doc([createTx]): the document a create transaction makes.
buildDoc2Doc(createTx) ==
  SpaceDoc(createTx.objectId, createTx.attributes.private, createTx.attributes.members)

\* TxProcessor.updateDoc2Doc(doc, updateTx): applies the operations to the document
\* (in place: the caller's object is the one updated).
updateDoc2Doc(doc, updateTx) ==
  LET ops == updateTx.operations
      d1  == IF ops.private # None THEN [doc EXCEPT !.private = ops.private[1]] ELSE doc
      d2  == IF ops.members # None THEN [d1 EXCEPT !.members = ops.members[1]] ELSE d1
      d3  == IF ops.push # None THEN [d2 EXCEPT !.members = @ \o ops.push[1].vals] ELSE d2
      d4  == IF ops.pull # None THEN [d3 EXCEPT !.members = without(@, ops.pull[1].vals)] ELSE d3
  IN  d4

\* The next pipeline stage applies a forwarded transaction to the stored spaces.
provideTx(stor, tx) ==
  IF ~isDerived(tx.objectClass, ClassSpace) THEN stor
  ELSE IF tx._class = TxCreateDoc THEN Put(stor, tx.objectId, buildDoc2Doc(tx))
  ELSE IF tx._class = TxUpdateDoc /\ tx.objectId \in DOMAIN stor
         THEN Put(stor, tx.objectId, updateDoc2Doc(stor[tx.objectId], tx))
  ELSE IF tx._class = TxRemoveDoc THEN Drop(stor, tx.objectId)
  ELSE stor

\* The order in which storage.findAll returns the spaces.
SpaceOrder == <<"s1">>

\* storage.findAll(ctx, core.class.Space, { private: priv })
RECURSIVE findSpaces(_, _, _)
findSpaces(stor, priv, order) ==
  IF order = <<>> THEN <<>>
  ELSE (IF Head(order) \in DOMAIN stor /\ stor[Head(order)].private = priv
          THEN <<stor[Head(order)]>> ELSE <<>>) \o findSpaces(stor, priv, Tail(order))

(* --------------------------- initialisation --------------------------- *)

RECURSIVE addSpaces(_, _)
addSpaces(idx, spaces) ==
  IF spaces = <<>> THEN idx ELSE addSpaces(addSpace(idx, Head(spaces)), Tail(spaces))

\* init, the load of the private spaces.
loadPrivate(idx, stor) == addSpaces(idx, findSpaces(stor, TRUE, SpaceOrder))

\* init, the load of the public spaces: publicSpaces is assigned their ids.
loadPublic(idx, stor) ==
  LET publics == findSpaces(stor, FALSE, SpaceOrder)
  IN  [idx EXCEPT !.publicSpaces = [i \in 1..Len(publics) |-> publics[i]._id]]

init(stor) == loadPublic(loadPrivate(EmptyIndex, stor), stor)

(* ------------------------- space maintenance -------------------------- *)

handleCreate(idx, tx) ==
  IF ~isDerived(tx.objectClass, ClassSpace) THEN idx
  ELSE IF tx.attributes.private THEN addSpace(idx, buildDoc2Doc(tx))
  ELSE [idx EXCEPT !.publicSpaces = Append(@, tx.objectId)]

pushMembersHandle(idx, addedMembers, space) ==
  IF addedMembers.each THEN addMembers(idx, addedMembers.vals, space)
  ELSE addMemberSpace(idx, addedMembers.vals[1], space)

pullMembersHandle(idx, removedMembers, space) ==
  IF removedMembers.in THEN removeMembers(idx, removedMembers.vals, space)
  ELSE removeMemberSpace(idx, removedMembers.vals[1], space)

\* The members of arr, in order, that satisfy neither has(set, m): both loops of
\* syncMembers test a Set built from the same array they iterate.
RECURSIVE notIn(_, _)
notIn(arr, set) ==
  IF arr = <<>> THEN <<>>
  ELSE (IF Head(arr) \in set THEN <<>> ELSE <<Head(arr)>>) \o notIn(Tail(arr), set)

syncMembers(idx, members, space) ==
  LET oldMembers == Range(members)
      newMembers == Range(members)
  IN  addMembers(removeMembers(idx, notIn(members, oldMembers), space),
                 notIn(members, newMembers), space)

\* storage.findAll(ctx, core.class.Space, { _id })[0]
findOne(stor, id) == IF id \in DOMAIN stor THEN Some(stor[id]) ELSE None

\* handleUpdate after the read of the space made private: res is what the
\* read returned.
makePrivate(idx, res) ==
  IF res = None THEN idx
  ELSE removePublicSpace(addSpace(idx, [res[1] EXCEPT !.private = TRUE]), res[1]._id)

\* handleUpdate, the part on operations.private: a space made private is read
\* from storage, added and taken off publicSpaces; a space made public is
\* removed and pushed on publicSpaces.
updatePrivate(idx, stor, tx) ==
  IF tx.operations.private = None THEN idx
  ELSE IF tx.operations.private[1]
    THEN makePrivate(idx, findOne(stor, tx.objectId))
    ELSE [removeSpace(idx, tx.objectId) EXCEPT !.publicSpaces = Append(@, tx.objectId)]

\* handleUpdate, operations.members of a tracked space.
updateMembers(idx, tx) ==
  IF tx.operations.members # None
    THEN syncMembers(idx, tx.operations.members[1], tx.objectId) ELSE idx

\* handleUpdate, operations.$push.members of a tracked space.
updatePush(idx, tx) ==
  IF tx.operations.push # None
    THEN pushMembersHandle(idx, tx.operations.push[1], tx.objectId) ELSE idx

\* handleUpdate, operations.$pull.members of a tracked space.
updatePull(idx, tx) ==
  IF tx.operations.pull # None
    THEN pullMembersHandle(idx, tx.operations.pull[1], tx.objectId) ELSE idx

\* handleUpdate from the read of privateSpaces[objectId] on: the member
\* operations, then updateDoc2Doc on the tracked document.
updateTracked(idx, tx) ==
  IF tx.objectId \notin DOMAIN idx.privateSpaces THEN idx
  ELSE [updatePull(updatePush(updateMembers(idx, tx), tx), tx)
          EXCEPT !.privateSpaces[tx.objectId] = updateDoc2Doc(@, tx)]

handleUpdate(idx, stor, tx) ==
  IF ~isDerived(tx.objectClass, ClassSpace) THEN idx
  ELSE updateTracked(updatePrivate(idx, stor, tx), tx)

handleRemove(idx, tx) ==
  IF ~isDerived(tx.objectClass, ClassSpace) THEN idx
  ELSE IF tx._class # TxCreateDoc THEN idx
  ELSE removePublicSpace(removeSpace(idx, tx.objectId), tx.objectId)

handleTx(idx, stor, tx) ==
  IF tx._class = TxCreateDoc THEN handleCreate(idx, tx)
  ELSE IF tx._class = TxUpdateDoc THEN handleUpdate(idx, stor, tx)
  ELSE IF tx._class = TxRemoveDoc THEN handleRemove(idx, tx)
  ELSE idx

\* getTargets(accounts): the accounts whose e-mails are notified; None when the
\* space of the transaction is not tracked.
getTargets(accounts) == Some(Range(accounts))

(* ------------------------ write authorization ------------------------- *)

Forwarded == "forwarded"

Forbidden == "Forbidden"

ResolutionFailure == "ResolutionFailure"

TxResult(idx, outcome, targets) == [idx |-> idx, outcome |-> outcome, targets |-> targets]

\* tx from the read of privateSpaces[tx.objectSpace] to the call of provideTx:
\* idx is the index that handleTx left.
authorize(idx, ctx, t) ==
  IF ~isDerived(t._class, TxCUD) THEN TxResult(idx, Forwarded, None)
  ELSE IF t.objectSpace \notin DOMAIN idx.privateSpaces THEN TxResult(idx, Forwarded, None)
  ELSE IF ~getUser(ctx).ok THEN TxResult(idx, ResolutionFailure, None)
  ELSE IF getUser(ctx).account # System
          /\ ~includes(idx.allowedSpaces[getUser(ctx).account],
                       IF isDerived(t.objectClass, ClassSpace) THEN t.objectId ELSE t.objectSpace)
    THEN TxResult(idx, Forbidden, None)
  ELSE TxResult(idx, Forwarded, getTargets(idx.privateSpaces[t.objectSpace].members))

\* tx up to the read of privateSpaces[tx.objectSpace]: the index after the
\* space maintenance of a TxCUD on a Space.
maintain(idx, stor, t) ==
  IF isDerived(t._class, TxCUD) /\ isDerived(t.objectClass, ClassSpace)
    THEN handleTx(idx, stor, t) ELSE idx

\* tx(ctx, tx) up to the call of provideTx: the index it leaves, whether the
\* transaction is forwarded, and the targets it computed.
tx(idx, stor, ctx, t) == authorize(maintain(idx, stor, t), ctx, t)

(* -------------------------- query rewriting --------------------------- *)

getAllAllowedSpaces(idx, ctx) ==
  LET user == getUser(ctx)
  IN  IF user.ok
        THEN LET userSpaces == idx.allowedSpaces[user.account]
             IN  userSpaces \o <<user.account>> \o idx.publicSpaces \o systemSpaces
        ELSE idx.publicSpaces \o systemSpaces

\* A space constraint: a string (str = Some(id)), or an object whose $in is
\* given (in = Some(ids)) or not (another operator).
QueryString(id) == [str |-> Some(id), in |-> None]

QueryIn(ids) == [str |-> None, in |-> Some(ids)]

QueryObject == [str |-> None, in |-> None]

QueryResult(outcome, space) == [outcome |-> outcome, space |-> space]

\* mergeQuery with the $in array forwarded as the caller gave it.
mergeQueryUnfiltered(idx, ctx, query) ==
  LET spaces == getAllAllowedSpaces(idx, ctx)
  IN  IF query.str # None
        THEN IF ~includes(spaces, query.str[1])
               THEN QueryResult(Forbidden, query)
               ELSE QueryResult(Forwarded, query)
        ELSE IF query.in # None
          THEN QueryResult(Forwarded, query)
          ELSE QueryResult(Forwarded, [query EXCEPT !.in = Some(spaces)])

mergeQuery(idx, ctx, query) ==
  LET spaces == getAllAllowedSpaces(idx, ctx)
  IN  IF query.str # None
        THEN IF ~includes(spaces, query.str[1])
               THEN QueryResult(Forbidden, query)
               ELSE QueryResult(Forwarded, query)
        ELSE IF query.in # None
          THEN QueryResult(Forwarded, [query EXCEPT !.in = Some(filter(query.in[1], spaces))])
          ELSE QueryResult(Forwarded, [query EXCEPT !.in = Some(spaces)])

(* --------------------------- lookup filtering ------------------------- *)

\* isUnavailable(ctx, space): ok is FALSE when getUser threw.
isUnavailable(idx, ctx, space) ==
  IF space \notin DOMAIN idx.privateSpaces THEN [ok |-> TRUE, value |-> FALSE]
  ELSE IF ~getUser(ctx).ok THEN [ok |-> FALSE, value |-> FALSE]
  ELSE IF getUser(ctx).account = System THEN [ok |-> TRUE, value |-> FALSE]
  ELSE [ok |-> TRUE, value |-> ~includes(idx.allowedSpaces[getUser(ctx).account], space)]

\* The $lookup of a found object: one key holding an array of joined objects
\* and one key holding a single optional joined object, each joined object
\* given by its space.
Lookup(arr, one) == [arr |-> arr, one |-> one]

\* The joined objects of val that are kept.
RECURSIVE keepAvailable(_, _, _)
keepAvailable(idx, ctx, val) ==
  IF val = <<>> THEN <<>>
  ELSE (IF ~isUnavailable(idx, ctx, Head(val)).value THEN <<Head(val)>> ELSE <<>>)
         \o keepAvailable(idx, ctx, Tail(val))

\* filterLookup(ctx, lookup): the lookup it leaves, or the failure of an
\* isUnavailable call.
filterLookup(idx, ctx, lookup) ==
  IF \E space \in Range(lookup.arr) \cup Range(lookup.one) : ~isUnavailable(idx, ctx, space).ok
    THEN [outcome |-> ResolutionFailure, lookup |-> lookup]
    ELSE [outcome |-> Forwarded,
          lookup  |-> Lookup(keepAvailable(idx, ctx, lookup.arr),
                             keepAvailable(idx, ctx, lookup.one))]

(* ------------------------------- findAll ------------------------------ *)

\* The result of findAll: how the call ended, the space constraint passed to
\* provideFindAll (None when the call failed before it), and the $lookup of the
\* found object as returned (None when there is none or the call failed).
FindResult(outcome, forwarded, lookup) ==
  [outcome |-> outcome, forwarded |-> forwarded, lookup |-> lookup]

\* findAll from the call of provideFindAll on: q is the rewritten constraint,
\* lookup the $lookup of the found object when options.lookup is given.
findLookup(idx, ctx, q, lookup) ==
  IF q.outcome # Forwarded THEN FindResult(q.outcome, None, None)
  ELSE IF lookup = None THEN FindResult(Forwarded, Some(q.space), None)
  ELSE LET f == filterLookup(idx, ctx, lookup[1])
       IN  IF f.outcome = Forwarded
             THEN FindResult(Forwarded, Some(q.space), Some(f.lookup))
             ELSE FindResult(f.outcome, Some(q.space), None)

\* findAll(ctx, _class, query, options): space is query.space (None when the
\* query has no space constraint).
findAll(idx, ctx, space, lookup) ==
  findLookup(idx, ctx,
             IF space # None THEN mergeQuery(idx, ctx, space[1])
             ELSE QueryResult(Forwarded, QueryIn(getAllAllowedSpaces(idx, ctx))),
             lookup)

(* ------------------------------ requests ------------------------------ *)

\* The object spaces a transaction may name: a space, or core.space.Space.
TxSpaces == Spaces \cup {"core:space:Space"}

MemberArrays == DistinctSeqs(Accounts, MaxBatch)

Batches == MemberArrays \ {<<>>}

UpdateOperations ==
  {NoOperations}
    \cup {Operations(Some(b), None, None, None) : b \in BOOLEAN}
    \cup {Operations(None, Some(m), None, None) : m \in MemberArrays}
    \cup {Operations(None, None, Some(PushOne(a)), None) : a \in Accounts}
    \cup {Operations(None, None, Some(PushEach(m)), None) : m \in Batches}
    \cup {Operations(None, None, None, Some(PullOne(a))) : a \in Accounts}
    \cup {Operations(None, None, None, Some(PullIn(m))) : m \in Batches}
    \cup {Operations(Some(TRUE), None, Some(PushOne("a1")), None)}

\* The ids a query may name in its space constraint.
QueryIds == Spaces \cup {"core:space:Space"} \cup Accounts

QuerySpaces ==
  {None, Some(QueryObject)}
    \cup {Some(QueryString(id)) : id \in QueryIds}
    \cup {Some(QueryIn(ids)) : ids \in DistinctSeqs(Spaces \cup {"core:space:Space"}, MaxBatch)}

\* The $lookup data a found object may carry.
Lookups ==
  {None, Some(Lookup(<<>>, None)), Some(Lookup(<<"s1">>, Some("core:space:Space"))),
   Some(Lookup(<<"core:space:Space", "s1">>, Some("s1")))}

\* The findAll requests: every space constraint without lookup, every lookup with
\* an unconstrained query, and every lookup with the constraint "s1".
FindRequests ==
  {[space |-> q, lookup |-> None] : q \in QuerySpaces}
    \cup {[space |-> q, lookup |-> l] :
            q \in {None, Some(QueryString("s1"))}, l \in Lookups \ {None}}

\* The transactions on a Space.
CreateTxs ==
  {Tx(TxCreateDoc, ClassSpace, id, objectSpace, [private |-> priv, members |-> members],
      NoOperations) :
     id \in Spaces, objectSpace \in TxSpaces, priv \in BOOLEAN, members \in MemberArrays}

UpdateTxs ==
  {Tx(TxUpdateDoc, ClassSpace, id, objectSpace, NoAttributes, ops) :
     id \in Spaces, objectSpace \in TxSpaces, ops \in UpdateOperations}

RemoveTxs ==
  {Tx(TxRemoveDoc, ClassSpace, id, objectSpace, NoAttributes, NoOperations) :
     id \in Spaces, objectSpace \in TxSpaces}

\* The creates, updates and removes of a document that is not a space.
DocTxs ==
  {Tx(class, ClassDoc, "d1", objectSpace, NoAttributes, NoOperations) :
     class \in {TxCreateDoc, TxUpdateDoc, TxRemoveDoc}, objectSpace \in TxSpaces}

\* The transactions that are not a TxCUD.
OtherTxs ==
  {Tx(TxBulkWrite, ClassDoc, "d1", objectSpace, NoAttributes, NoOperations) :
     objectSpace \in TxSpaces}

(* ---------------------------- state machine --------------------------- *)

TheIndex == Index(allowedSpaces, privateSpaces, publicSpaces)

\* The spaces storage may hold when the middleware is created.
InitialStorages ==
  LET docs(s) == {SpaceDoc(s, p, m) : p \in BOOLEAN, m \in MemberArrays}
  IN  UNION {{f \in [D -> UNION {docs(s) : s \in D}] : \A s \in D : f[s]._id = s} :
             D \in SUBSET Spaces}

\* No array of the state is longer than MaxLen.
WithinBounds(idx, stor) ==
  /\ Len(idx.publicSpaces) <= MaxLen
  /\ \A a \in AccountIds : Len(idx.allowedSpaces[a]) <= MaxLen
  /\ \A s \in DOMAIN idx.privateSpaces : Len(idx.privateSpaces[s].members) <= MaxLen
  /\ \A s \in DOMAIN stor : Len(stor[s].members) <= MaxLen

\* A slot without a suspended call.
Idle == [pc |-> "idle"]

NoCalls == [h \in 1..MaxCalls |-> Idle]

\* create returning the instance without awaiting init.
ReturnedEarly == phase \in {"constructed", "private loaded", "ready", "failed"}

\* create has returned the instance: init was awaited and did not fail.
Returned == phase = "ready"

\* create(ctx, storage, next): the instance after init has loaded the index.
Init ==
  /\ storage \in InitialStorages
  /\ LET idx == init(storage)
     IN  /\ allowedSpaces = idx.allowedSpaces
         /\ privateSpaces = idx.privateSpaces
         /\ publicSpaces = idx.publicSpaces
  /\ phase = "ready"
  /\ calls = NoCalls
  /\ serial = EmptyIndex

\* The end of a call of tx with result r: the index is the one the call left,
\* and the next stage has stor.  A call that would build an array longer than
\* MaxLen is left out.
Commit(r, stor) ==
  /\ WithinBounds(r.idx, stor)
  /\ allowedSpaces' = r.idx.allowedSpaces
  /\ privateSpaces' = r.idx.privateSpaces
  /\ publicSpaces' = r.idx.publicSpaces
  /\ storage' = stor
  /\ UNCHANGED <<phase, calls, serial>>

\* provideTx is reached only when tx did not throw.
Provide(r, t) == Commit(r, IF r.outcome = Forwarded THEN provideTx(storage, t) ELSE storage)

\* The transactions that can arrive: a create names a space that the next stage
\* does not hold, an update or a remove of a space names one that it holds.
Sendable(t) ==
  isDerived(t.objectClass, ClassSpace) =>
    (t._class = TxCreateDoc <=> t.objectId \notin DOMAIN storage)

\* One call of tx for the transaction t, by any request context: idx is the
\* index after the space maintenance, which does not read the context.
Authorize(t, idx) == \E ctx \in Contexts : Provide(authorize(idx, ctx, t), t)

DoTx(t) == Returned /\ Sendable(t) /\ Authorize(t, maintain(TheIndex, storage, t))

CreateSpace ==
  /\ \E t \in CreateTxs : DoTx(t)

UpdateSpace ==
  /\ \E t \in UpdateTxs : DoTx(t)

RemoveSpace ==
  /\ \E t \in RemoveTxs : DoTx(t)

DocTx ==
  /\ \E t \in DocTxs : DoTx(t)

OtherTx ==
  /\ \E t \in OtherTxs : DoTx(t)

\* One call of findAll(ctx, _class, query, options): the constraint is rewritten
\* and the lookup filtered, or the call fails; no field of the middleware is
\* written.
FindAll ==
  /\ \E ctx \in Contexts, req \in FindRequests :
       /\ Returned
       /\ findAll(TheIndex, ctx, req.space, req.lookup).outcome
            \in {Forwarded, Forbidden, ResolutionFailure}
       /\ UNCHANGED vars

Next == CreateSpace \/ UpdateSpace \/ RemoveSpace \/ DocTx \/ OtherTx \/ FindAll

Spec == Init /\ [][Next]_vars

\* The transactions on spaces sent by the system account alone: tx forwards
\* every one of them, so the index only ever sees transactions that the next
\* stage applied.
Replay(t) == Returned /\ Sendable(t) /\ Provide(tx(TheIndex, storage, System, t), t)

ReplayCreate ==
  /\ \E t \in CreateTxs : Replay(t)

ReplayUpdate ==
  /\ \E t \in UpdateTxs : Replay(t)

ReplayRemove ==
  /\ \E t \in RemoveTxs : Replay(t)

NextReplay == ReplayCreate \/ ReplayUpdate \/ ReplayRemove

SpecReplay == Init /\ [][NextReplay]_vars

(* ------------------------------- create ------------------------------- *)

\* The positions of create: the instance is constructed, init has loaded the
\* private spaces, init is done and the instance returned, or a load failed.
Phases == {"constructed", "private loaded", "ready", "failed"}

SetIndex(idx) ==
  /\ allowedSpaces' = idx.allowedSpaces
  /\ privateSpaces' = idx.privateSpaces
  /\ publicSpaces' = idx.publicSpaces

\* new SpaceSecurityMiddleware(storage, next): the fields as initialised.
InitCreate ==
  /\ storage \in InitialStorages
  /\ allowedSpaces = EmptyIndex.allowedSpaces
  /\ privateSpaces = EmptyIndex.privateSpaces
  /\ publicSpaces = EmptyIndex.publicSpaces
  /\ phase = "constructed"
  /\ calls = NoCalls
  /\ serial = EmptyIndex

\* init: the first findAll returned and every private space was added.
LoadPrivate ==
  /\ phase = "constructed"
  /\ SetIndex(loadPrivate(TheIndex, storage))
  /\ phase' = "private loaded"
  /\ UNCHANGED <<storage, calls, serial>>

\* init: the second findAll returned; init and create return.
LoadPublic ==
  /\ phase = "private loaded"
  /\ SetIndex(loadPublic(TheIndex, storage))
  /\ phase' = "ready"
  /\ UNCHANGED <<storage, calls, serial>>

\* init: one of the two findAll calls failed; create rejects.
LoadFails ==
  /\ phase \in {"constructed", "private loaded"}
  /\ phase' = "failed"
  /\ UNCHANGED <<allowedSpaces, privateSpaces, publicSpaces, storage, calls, serial>>

NextCreate ==
  LoadPrivate \/ LoadPublic \/ LoadFails
    \/ ReplayCreate \/ ReplayUpdate \/ ReplayRemove \/ FindAll

SpecCreate == InitCreate /\ [][NextCreate]_vars

(* ------------------------- interleaved calls -------------------------- *)

\* The operations of the updates that are interleaved.
InterleaveOperations ==
  {Operations(Some(TRUE), None, None, None), Operations(Some(FALSE), None, None, None),
   Operations(None, None, Some(PushOne("a1")), None),
   Operations(None, None, None, Some(PullOne("a1")))}

\* The updates of a Space, sent by the system account, that are interleaved.
InterleaveTxs ==
  {t \in UpdateTxs : t.objectSpace = "core:space:Space" /\ t.operations \in InterleaveOperations}

\* A call of tx suspended at pc: in handleUpdate at the await of
\* storage.findAll, whose result is res ("reading"), or after handleTx and
\* before provideTx ("handled").
Call(pc, t, res) == [pc |-> pc, t |-> t, res |-> res]

\* handleUpdate resumed after the await of storage.findAll.
resumeUpdate(idx, res, t) == updateTracked(makePrivate(idx, res), t)

InitInterleave ==
  /\ storage \in InitialStorages
  /\ LET idx == init(storage)
     IN  /\ allowedSpaces = idx.allowedSpaces
         /\ privateSpaces = idx.privateSpaces
         /\ publicSpaces = idx.publicSpaces
  /\ phase = "ready"
  /\ calls = NoCalls
  /\ serial = init(storage)

\* tx is called with t and runs to its first await: an update that makes the
\* space private stops at the read of the space, every other one has the
\* index maintained at once.
Begin ==
  /\ \E h \in 1..MaxCalls, t \in InterleaveTxs :
       /\ Returned /\ Sendable(t) /\ calls[h] = Idle
       /\ IF t.operations.private = Some(TRUE)
            THEN /\ calls' = [calls EXCEPT ![h] = Call("reading", t, findOne(storage, t.objectId))]
                 /\ UNCHANGED <<allowedSpaces, privateSpaces, publicSpaces>>
            ELSE /\ calls' = [calls EXCEPT ![h] = Call("handled", t, None)]
                 /\ WithinBounds(maintain(TheIndex, storage, t), storage)
                 /\ SetIndex(maintain(TheIndex, storage, t))
       /\ UNCHANGED <<storage, phase, serial>>

\* The read of the space has returned and handleUpdate runs to its end.
Resume ==
  /\ \E h \in 1..MaxCalls :
       /\ calls[h].pc = "reading"
       /\ WithinBounds(resumeUpdate(TheIndex, calls[h].res, calls[h].t), storage)
       /\ SetIndex(resumeUpdate(TheIndex, calls[h].res, calls[h].t))
       /\ calls' = [calls EXCEPT ![h] = Call("handled", calls[h].t, None)]
       /\ UNCHANGED <<storage, phase, serial>>

\* tx goes on after handleTx: the system account is authorized and the
\* transaction is given to the next stage.
Finish ==
  /\ \E h \in 1..MaxCalls :
       /\ calls[h].pc = "handled"
       /\ authorize(TheIndex, System, calls[h].t).outcome = Forwarded
       /\ WithinBounds(maintain(serial, storage, calls[h].t), provideTx(storage, calls[h].t))
       /\ storage' = provideTx(storage, calls[h].t)
       /\ serial' = maintain(serial, storage, calls[h].t)
       /\ calls' = [calls EXCEPT ![h] = Idle]
       /\ UNCHANGED <<allowedSpaces, privateSpaces, publicSpaces, phase>>

NextInterleave == Begin \/ Resume \/ Finish

SpecInterleave == InitInterleave /\ [][NextInterleave]_vars

(* ---------------------- failure of the next stage --------------------- *)

NextStageFailure == "NextStageFailure"

\* tx when provideTx rejects: r is what tx did up to the call of provideTx;
\* the rejection is passed on and the index stays as handleTx left it.
rejected(r) == IF r.outcome = Forwarded THEN TxResult(r.idx, NextStageFailure, None) ELSE r

\* A transaction on a space, sent by the system account, that the next stage
\* rejects: storage keeps the spaces it had.
ReplayFails ==
  /\ \E t \in CreateTxs \cup UpdateTxs \cup RemoveTxs :
       /\ Returned /\ Sendable(t)
       /\ Commit(rejected(tx(TheIndex, storage, System, t)), storage)

NextFailing == ReplayCreate \/ ReplayUpdate \/ ReplayRemove \/ ReplayFails

SpecFailing == Init /\ [][NextFailing]_vars

(* ------------------------ suspended authorization --------------------- *)

\* A call of tx by ctx suspended at the await of getTargets, after the
\* permission check and before provideTx.
AuthorizedCall(ctx, t) == [pc |-> "authorized", t |-> t, ctx |-> ctx]

\* tx is called by an account with a transaction on a document: it is refused,
\* or given to the next stage at once when its space is not tracked as
\* private, or it passes the check and stops at the await of getTargets.
Write ==
  /\ \E h \in 1..MaxCalls, a \in Accounts, t \in DocTxs :
       /\ Returned /\ calls[h] = Idle
       /\ IF /\ t.objectSpace \in DOMAIN privateSpaces
             /\ tx(TheIndex, storage, a, t).outcome = Forwarded
            THEN /\ calls' = [calls EXCEPT ![h] = AuthorizedCall(a, t)]
                 /\ UNCHANGED <<allowedSpaces, privateSpaces, publicSpaces, storage, phase, serial>>
            ELSE UNCHANGED vars

\* getTargets has returned: the transaction is given to the next stage.
Forward ==
  /\ \E h \in 1..MaxCalls :
       /\ calls[h].pc = "authorized"
       /\ storage' = provideTx(storage, calls[h].t)
       /\ calls' = [calls EXCEPT ![h] = Idle]
       /\ UNCHANGED <<allowedSpaces, privateSpaces, publicSpaces, phase, serial>>

NextAuthorize == Write \/ Forward \/ ReplayCreate \/ ReplayUpdate \/ ReplayRemove

SpecAuthorize == Init /\ [][NextAuthorize]_vars

(* ----------------------- ground truth and probes ---------------------- *)

\* The spaces as the next stage has them after the transactions it received.
IsPrivate(s) == s \in DOMAIN storage /\ storage[s].private

IsPublic(s) == s \in DOMAIN storage /\ ~storage[s].private

IsMember(a, s) == s \in DOMAIN storage /\ includes(storage[s].members, a)

\* The create, update and remove transactions a caller can send in this state.
CudTxs == {t \in CreateTxs \cup UpdateTxs \cup RemoveTxs \cup DocTxs : Sendable(t)}

\* The id checked against the caller's permissions.
EffectiveSpace(t) == IF isDerived(t.objectClass, ClassSpace) THEN t.objectId ELSE t.objectSpace

\* A write of a document into the space s.
WriteTo(s) == Tx(TxUpdateDoc, ClassDoc, "d1", s, NoAttributes, NoOperations)

\* The permitted-space set of ctx under the index idx.
Permitted(idx, ctx) == Range(getAllAllowedSpaces(idx, ctx))

(* -------------------------------- C1 ---------------------------------- *)

C1Case(idx, a, t) ==
  /\ EffectiveSpace(t) \in DOMAIN idx.privateSpaces
  /\ ~includes(idx.allowedSpaces[a], EffectiveSpace(t))

C1Rejected(r, a, t) ==
  (C1Case(TheIndex, a, t) /\ C1Case(r.idx, a, t)) => r.outcome = Forbidden

\* C1: in every reachable state, a create, update or remove whose effective
\* space (objectId for a transaction on a Space, objectSpace otherwise) is
\* tracked as private, sent by an account that is not the system account and
\* has not that space in allowedSpaces, fails with Forbidden and is not passed
\* on.  The case is taken in its narrowest reading: the space is private and the
\* caller lacks it both before the call and when tx authorizes.
C1_PrivateWriteForbidden ==
  \A a \in Accounts, t \in CudTxs : C1Rejected(tx(TheIndex, storage, a, t), a, t)

(* -------------------------------- C2 ---------------------------------- *)

C2Unchanged(r) == r.outcome = Forbidden => r.idx = TheIndex

\* C2: whenever tx rejects a transaction with Forbidden, allowedSpaces,
\* privateSpaces and publicSpaces are what they were before the call.
C2_ForbiddenLeavesIndex ==
  \A ctx \in Contexts, t \in CudTxs \cup OtherTxs : C2Unchanged(tx(TheIndex, storage, ctx, t))

(* -------------------------------- C3 ---------------------------------- *)

\* C3: after any sequence of Space transactions the live keys of privateSpaces
\* are exactly the spaces that exist and are private, and publicSpaces holds
\* exactly the spaces that exist and are not private.
C3_IndexTracksSpaces ==
  /\ DOMAIN privateSpaces = {s \in Spaces : IsPrivate(s)}
  /\ Range(publicSpaces) = {s \in Spaces : IsPublic(s)}

(* -------------------------------- C4 ---------------------------------- *)

\* C4: for every account a and every space s that is private now, s is in
\* allowedSpaces[a] iff a is a member of s by the transactions applied so far.
C4_AllowedIffMember ==
  \A a \in Accounts, s \in Spaces :
    IsPrivate(s) => (includes(allowedSpaces[a], s) <=> IsMember(a, s))

(* -------------------------------- C5 ---------------------------------- *)

\* The ids of the constraint that findAll forwards for a query without a space
\* constraint.
Unconstrained(ctx) == Range(findAll(TheIndex, ctx, None, None).forwarded[1].in[1])

\* C5: the constraint forwarded for a query without a space constraint never
\* holds the id of a space that is private now and of which the caller is not
\* a member now.
C5_NoForeignPrivateSpace ==
  \A ctx \in Contexts, s \in Spaces :
    (IsPrivate(s) /\ ~IsMember(ctx, s)) => s \notin Unconstrained(ctx)

(* -------------------------------- C6 ---------------------------------- *)

C6Kept(r, req) ==
  /\ r.outcome # Forbidden
  /\ (req.lookup # None /\ r.outcome = Forwarded) => r.lookup = req.lookup

\* The query names, as a literal, a space that is private now.
C6Case(req) ==
  /\ req.space # None
  /\ req.space[1].str # None
  /\ IsPrivate(req.space[1].str[1])

\* C6: no tx of the system account fails with Forbidden; no findAll of the
\* system account that names a private space by its literal id fails with
\* Forbidden, and no joined object is taken out of its lookup results.
C6_SystemBypassesChecks ==
  /\ \A t \in CudTxs \cup OtherTxs : tx(TheIndex, storage, System, t).outcome # Forbidden
  /\ \A req \in FindRequests :
       C6Case(req) => C6Kept(findAll(TheIndex, System, req.space, req.lookup), req)

(* -------------------------------- C7 ---------------------------------- *)

\* How many flips of the private flag in a row the statement of C7 follows.
MaxFlips == 2

\* The update that sets the private flag of s to b.
FlipTx(s, b, objectSpace) ==
  Tx(TxUpdateDoc, ClassSpace, s, objectSpace, NoAttributes, Operations(Some(b), None, None, None))

\* Every account can write to s and has s in its permitted set.
C7Open(st, s) ==
  \A a \in Accounts :
    /\ tx(st.idx, st.stor, a, WriteTo(s)).outcome = Forwarded
    /\ s \in Permitted(st.idx, a)

\* Every account that is not a member of s is refused and has not s in its
\* permitted set.
C7Closed(st, s) ==
  \A a \in Accounts :
    ~includes(st.stor[s].members, a) =>
      /\ tx(st.idx, st.stor, a, WriteTo(s)).outcome = Forbidden
      /\ s \notin Permitted(st.idx, a)

\* After each of the next n flips of s that are forwarded, starting in st, s is
\* open when the flag went to false and closed when it went back to true.
RECURSIVE C7Flips(_, _, _)
C7Step(st, s, n, t, r) ==
  r.outcome = Forwarded =>
    /\ IF st.stor[s].private
         THEN C7Open([idx |-> r.idx, stor |-> provideTx(st.stor, t)], s)
         ELSE C7Closed([idx |-> r.idx, stor |-> provideTx(st.stor, t)], s)
    /\ C7Flips([idx |-> r.idx, stor |-> provideTx(st.stor, t)], s, n - 1)

C7Flips(st, s, n) ==
  n = 0 \/ \A ctx \in Contexts, objectSpace \in TxSpaces :
             C7Step(st, s, n, FlipTx(s, ~st.stor[s].private, objectSpace),
                    tx(st.idx, st.stor, ctx, FlipTx(s, ~st.stor[s].private, objectSpace)))

\* C7: once a private space has its flag flipped to false every account can
\* write to it and is permitted to query it; once the flag is flipped back to
\* true every account that is not a member is refused and is not permitted to
\* query it - whatever happened before the flips.
C7_FlipsOpenAndClose ==
  \A s \in Spaces : IsPrivate(s) => C7Flips([idx |-> TheIndex, stor |-> storage], s, MaxFlips)

(* -------------------------------- C8 ---------------------------------- *)

\* The updates of s that only push on members, c among the pushed accounts.
PushTxs(s, c) ==
  {t \in UpdateTxs : /\ t.objectId = s
                     /\ t.operations.push # None /\ t.operations.pull = None
                     /\ t.operations.private = None /\ t.operations.members = None
                     /\ includes(t.operations.push[1].vals, c)}

\* The updates of s that only pull from members, c among the pulled accounts.
PullTxs(s, c) ==
  {t \in UpdateTxs : /\ t.objectId = s
                     /\ t.operations.pull # None /\ t.operations.push = None
                     /\ t.operations.private = None /\ t.operations.members = None
                     /\ includes(t.operations.pull[1].vals, c)}

C8Gains(r, t, s, c) ==
  r.outcome = Forwarded =>
    /\ tx(r.idx, provideTx(storage, t), c, WriteTo(s)).outcome = Forwarded
    /\ s \in Permitted(r.idx, c)

C8Loses(r, t, s, c) ==
  r.outcome = Forwarded =>
    /\ tx(r.idx, provideTx(storage, t), c, WriteTo(s)).outcome = Forbidden
    /\ s \notin Permitted(r.idx, c)

\* C8: for a private space s, right after a forwarded $push of c on members the
\* next write of c to s is forwarded and s is permitted to c; right after a
\* forwarded $pull of c from members the next write of c to s is refused and s
\* is not permitted to c, however often c was added before.
C8_PushGrantsPullRevokes ==
  \A s \in Spaces, c \in Accounts :
    IsPrivate(s) =>
      /\ \A ctx \in Contexts, t \in PushTxs(s, c) :
           C8Gains(tx(TheIndex, storage, ctx, t), t, s, c)
      /\ \A ctx \in Contexts, t \in PullTxs(s, c) :
           C8Loses(tx(TheIndex, storage, ctx, t), t, s, c)

(* -------------------------------- C9 ---------------------------------- *)

\* C9: a write of a document into a space that is public now, or into a system
\* space, is never refused with Forbidden, whoever sends it.
C9_PublicWriteNeverForbidden ==
  \A a \in AccountIds, t \in DocTxs :
    (IsPublic(t.objectSpace) \/ includes(systemSpaces, t.objectSpace)) =>
      tx(TheIndex, storage, a, t).outcome # Forbidden

(* -------------------------------- C10 --------------------------------- *)

\* The permitted-space set of a caller, from the fields of the middleware.
PermittedSet(ctx) ==
  IF ctx = Unresolved THEN Range(publicSpaces) \cup Range(systemSpaces)
  ELSE Range(allowedSpaces[ctx]) \cup {ctx} \cup Range(publicSpaces) \cup Range(systemSpaces)

\* The members of arr that are in set, in their order.
RECURSIVE Intersect(_, _)
Intersect(arr, set) ==
  IF arr = <<>> THEN <<>>
  ELSE (IF Head(arr) \in set THEN <<Head(arr)>> ELSE <<>>) \o Intersect(Tail(arr), set)

C10Literal(r, ctx, id) ==
  IF id \in PermittedSet(ctx)
    THEN r.outcome = Forwarded /\ r.forwarded = Some(QueryString(id))
    ELSE r.outcome = Forbidden /\ r.forwarded = None

C10In(r, ctx, ids) ==
  /\ r.outcome = Forwarded
  /\ r.forwarded = Some(QueryIn(Intersect(ids, PermittedSet(ctx))))

C10None(r, ctx) ==
  /\ r.outcome = Forwarded
  /\ r.forwarded[1].str = None
  /\ Range(r.forwarded[1].in[1]) = PermittedSet(ctx)

C10Rewritten(r, ctx, space) ==
  IF space = None THEN C10None(r, ctx)
  ELSE IF space[1].str # None THEN C10Literal(r, ctx, space[1].str[1])
  ELSE IF space[1].in # None THEN C10In(r, ctx, space[1].in[1])
  ELSE TRUE

\* C10: a literal space id is forwarded unchanged when it is in the caller's
\* permitted set and refused with Forbidden otherwise; an inclusion filter
\* {$in: X} is forwarded as X restricted to the permitted set; a query without
\* a space constraint is forwarded constrained to the permitted set.
C10_QueryRewriting ==
  \A ctx \in Contexts, space \in QuerySpaces :
    C10Rewritten(findAll(TheIndex, ctx, space, None), ctx, space)

\* A state where a literal id is refused for one caller and forwarded for
\* another, and an inclusion filter loses one id and keeps the other.
C10_Witness ==
  /\ findAll(TheIndex, "a2", Some(QueryString("s1")), None).outcome = Forbidden
  /\ findAll(TheIndex, "a1", Some(QueryString("s1")), None).outcome = Forwarded
  /\ findAll(TheIndex, "a2", Some(QueryIn(<<"s1", "core:space:Space">>)), None).forwarded
       = Some(QueryIn(<<"core:space:Space">>))
  /\ "s1" \in DOMAIN privateSpaces

(* -------------------------------- C11 --------------------------------- *)

\* C11: filterLookup ends normally for every caller, also one whose account
\* cannot be resolved, and every lookup structure, and no findAll with a
\* lookup option fails in lookup filtering.
C11_LookupNeverRaises ==
  /\ \A ctx \in Contexts, l \in Lookups \ {None} :
       filterLookup(TheIndex, ctx, l[1]).outcome = Forwarded
  /\ \A ctx \in Contexts, req \in FindRequests :
       req.lookup # None =>
         findAll(TheIndex, ctx, req.space, req.lookup).outcome # ResolutionFailure

(* -------------------------------- C12 --------------------------------- *)

\* filterLookup keeps a joined object of the space s, in an array and alone.
C12Kept(ctx, s) ==
  filterLookup(TheIndex, ctx, Lookup(<<s>>, Some(s))).lookup = Lookup(<<s>>, Some(s))

\* findAll with the literal space constraint s is not refused.
C12Accepted(ctx, s) ==
  findAll(TheIndex, ctx, Some(QueryString(s)), None).outcome # Forbidden

\* C12: for every caller whose account resolves and every space s that exists
\* or is a system space, filterLookup keeps a joined object of s exactly when
\* findAll with the literal constraint s is accepted for the same caller.
C12_LookupMirrorsQuery ==
  \A ctx \in AccountIds, s \in Spaces \cup Range(systemSpaces) :
    (s \in DOMAIN storage \/ includes(systemSpaces, s)) =>
      (C12Kept(ctx, s) <=> C12Accepted(ctx, s))

(* -------------------------------- C13 --------------------------------- *)

\* C13: every tx made in a context whose account cannot be resolved ends with
\* the resolution error and is not forwarded, whatever space it targets.
C13_UnresolvedWriteFails ==
  \A t \in CudTxs \cup OtherTxs :
    tx(TheIndex, storage, Unresolved, t).outcome = ResolutionFailure

(* -------------------------------- C14 --------------------------------- *)

\* The set that a query without a space constraint is constrained to.
C14Set(ctx) == Range(getAllAllowedSpaces(TheIndex, ctx))

\* C14: the permitted set is allowedSpaces[caller], the caller's account id,
\* publicSpaces and systemSpaces when the caller resolves, and publicSpaces and
\* systemSpaces when it does not; in that case no error is raised and the set
\* holds no id of a private space and no account id.
C14_PermittedSet ==
  /\ \A ctx \in AccountIds :
       C14Set(ctx) = Range(allowedSpaces[ctx]) \cup {ctx}
                       \cup Range(publicSpaces) \cup Range(systemSpaces)
  /\ C14Set(Unresolved) = Range(publicSpaces) \cup Range(systemSpaces)
  /\ findAll(TheIndex, Unresolved, None, None).outcome = Forwarded
  /\ \A s \in Spaces : (IsPrivate(s) \/ s \in DOMAIN privateSpaces) => s \notin C14Set(Unresolved)
  /\ C14Set(Unresolved) \cap AccountIds = {}

(* -------------------------------- C15 --------------------------------- *)

\* The space s is in some part of the index idx.
Tracked(idx, s) ==
  \/ s \in DOMAIN idx.privateSpaces
  \/ includes(idx.publicSpaces, s)
  \/ \E a \in AccountIds : includes(idx.allowedSpaces[a], s)

C15Removed(r, s) == r.outcome = Forwarded => ~Tracked(r.idx, s)

\* C15: after tx handled a TxRemoveDoc of a tracked space s, s is no live key
\* of privateSpaces, not in publicSpaces and in no account's allowedSpaces.
C15_RemoveCleansIndex ==
  \A ctx \in Contexts, t \in RemoveTxs :
    (Sendable(t) /\ Tracked(TheIndex, t.objectId)) =>
      C15Removed(tx(TheIndex, storage, ctx, t), t.objectId)

(* -------------------------------- C16 --------------------------------- *)

\* The updates of the space s that only replace members by the array n.
ReplaceTxs(s, n) ==
  {t \in UpdateTxs : /\ t.objectId = s
                     /\ t.operations = Operations(None, Some(n), None, None)}

C16Synced(r, s, n) ==
  r.outcome = Forwarded =>
    \A a \in Accounts : includes(r.idx.allowedSpaces[a], s) <=> includes(n, a)

\* C16: after an update that replaces the members of a space tracked as
\* private by n, the space is in allowedSpaces[a] exactly for the accounts a
\* of n.
C16_MembersReplaced ==
  \A s \in DOMAIN privateSpaces, n \in MemberArrays, ctx \in Contexts :
    \A t \in ReplaceTxs(s, n) : C16Synced(tx(TheIndex, storage, ctx, t), s, n)

(* -------------------------------- C17 --------------------------------- *)

\* C17: no space id is a live key of privateSpaces and an element of
\* publicSpaces at the same time.
C17_PrivatePublicExclusive ==
  \A s \in Spaces : ~(s \in DOMAIN privateSpaces /\ includes(publicSpaces, s))

(* -------------------------------- C18 --------------------------------- *)

\* publicSpaces.push(id), the addPublicSpace of handleCreate and handleUpdate.
addPublicSpace(idx, id) == [idx EXCEPT !.publicSpaces = Append(@, id)]

\* The documents a space id may stand for in addSpace.
C18Docs == {SpaceDoc(s, TRUE, m) : s \in Spaces, m \in MemberArrays}

\* C18: each mutation of the index applied twice leaves what it leaves applied
\* once, and one removeMemberSpace or removePublicSpace leaves no occurrence.
C18_MutationsIdempotent ==
  /\ \A a \in Accounts, s \in Spaces :
       /\ addMemberSpace(addMemberSpace(TheIndex, a, s), a, s) = addMemberSpace(TheIndex, a, s)
       /\ removeMemberSpace(removeMemberSpace(TheIndex, a, s), a, s)
            = removeMemberSpace(TheIndex, a, s)
       /\ ~includes(removeMemberSpace(TheIndex, a, s).allowedSpaces[a], s)
  /\ \A d \in C18Docs : addSpace(addSpace(TheIndex, d), d) = addSpace(TheIndex, d)
  /\ \A s \in Spaces :
       /\ addPublicSpace(addPublicSpace(TheIndex, s), s) = addPublicSpace(TheIndex, s)
       /\ removeSpace(removeSpace(TheIndex, s), s) = removeSpace(TheIndex, s)
       /\ removePublicSpace(removePublicSpace(TheIndex, s), s) = removePublicSpace(TheIndex, s)
       /\ ~includes(removePublicSpace(TheIndex, s).publicSpaces, s)

(* -------------------------------- C19 --------------------------------- *)

\* C19: once no call of tx is suspended, the index is the one that handling
\* the transactions one after another, in the order the next stage received
\* them, gives.
C19_InterleavingKeepsOrder ==
  (\A h \in 1..MaxCalls : calls[h] = Idle) => TheIndex = serial

(* -------------------------------- C20 --------------------------------- *)

\* privateSpaces holds the private spaces of storage, allowedSpaces the links
\* of their members, each once, and publicSpaces the ids of the other spaces.
C20Exact ==
  /\ DOMAIN privateSpaces = {s \in Spaces : IsPrivate(s)}
  /\ \A s \in DOMAIN privateSpaces : privateSpaces[s] = storage[s]
  /\ \A a \in AccountIds :
       /\ Range(allowedSpaces[a]) = {s \in Spaces : IsPrivate(s) /\ IsMember(a, s)}
       /\ Len(allowedSpaces[a]) = Cardinality(Range(allowedSpaces[a]))
  /\ Range(publicSpaces) = {s \in Spaces : IsPublic(s)}
  /\ Len(publicSpaces) = Cardinality(Range(publicSpaces))

C20Step ==
  /\ (phase # "ready" /\ phase' = "ready") => C20Exact'
  /\ phase # "ready" => storage' = storage
  /\ phase = "failed" => (phase' = "failed" /\ TheIndex' = TheIndex)
  /\ phase' = "ready" => phase \in {"private loaded", "ready"}

\* C20: when create returns, after both loads, the index holds exactly the
\* spaces of storage and their member links; no transaction is handled before
\* that; and when a load fails no instance is ever returned.
C20_InitPrecedesProcessing == [][C20Step]_vars

\* create has returned for a storage whose private space has two members.
C20_Witness ==
  /\ phase = "ready"
  /\ "s1" \in DOMAIN privateSpaces
  /\ privateSpaces["s1"].members = <<"a1", "a2">>
  /\ allowedSpaces["a1"] = <<"s1">>
  /\ allowedSpaces["a2"] = <<"s1">>
  /\ publicSpaces = <<>>

(* -------------------------------- C21 --------------------------------- *)

\* The create, update and remove transactions on a space that can arrive.
SpaceTxs == {t \in CreateTxs \cup UpdateTxs \cup RemoveTxs : Sendable(t)}

C21Kept(r) == r.outcome = NextStageFailure => r.idx = TheIndex

\* C21: when tx handled a transaction on a space and provideTx then fails,
\* allowedSpaces, privateSpaces and publicSpaces are as before the call.
C21_FailedTxLeavesIndex ==
  \A ctx \in Contexts, t \in SpaceTxs : C21Kept(rejected(tx(TheIndex, storage, ctx, t)))

(* -------------------------------- C22 --------------------------------- *)

\* The space of the call c is not tracked as private, or the id checked for
\* it is in allowedSpaces of its caller.
C22Allowed(c) ==
  \/ c.t.objectSpace \notin DOMAIN privateSpaces
  \/ includes(allowedSpaces[c.ctx], EffectiveSpace(c.t))

C22Step ==
  \A h \in 1..MaxCalls :
    (calls[h].pc = "authorized" /\ calls'[h] = Idle) => C22Allowed(calls[h])

\* C22: at the step that gives the transaction of an account to the next
\* stage, its objectSpace is no live key of privateSpaces or the id checked
\* for it is in allowedSpaces of the caller.
C22_ForwardedWhileAllowed == [][C22Step]_vars

====
